---------------------------- MODULE Spec2Model ----------------------------
(***************************************************************************)
(* A model of src/src/ucp.rs: the UCP packet codec (UcpPacket), the        *)
(* per-connection state machine (UcpStreamImpl), the client and server     *)
(* event loops (UcpClient, UcpServer).                                     *)
(*                                                                         *)
(* Conventions                                                             *)
(*  - A Rust u32 is a pair <<hi, lo>> of 16-bit halves (TLC's integers are *)
(*    32-bit signed, a u32 does not fit).  Arithmetic on them is modulo    *)
(*    2^32 and reports the carry/borrow, so that the debug build's         *)
(*    overflow panic and the release build's wrap-around are both models.  *)
(*  - The 1400-byte array UcpPacket::buf is a sequence holding its written *)
(*    prefix; every byte beyond the sequence is 0, as UcpPacket::new       *)
(*    leaves it.                                                           *)
(*  - A Rust panic unwinds through the call chain: the methods of          *)
(*    UcpStreamImpl are operators on an execution context                  *)
(*    [u, out, panic]: the connection, the datagrams handed to             *)
(*    socket.send_to by this call, and whether the call panicked.  A       *)
(*    panicked context is left as it is by everything that follows.        *)
(*  - parse_u32/write_u32 dereference a cast raw pointer; the access is    *)
(*    modelled as the big-endian load/store it performs on targets that    *)
(*    allow unaligned access.                                              *)
(*  - With(e, LAMBDA v : body) is LET v == e IN body.                      *)
(***************************************************************************)
EXTENDS Integers, Sequences, FiniteSets, TLC

VARIABLES
    clock,              \* get_time(), in milliseconds
    client_proc,        \* "idle" (before UcpClient::connect), "running", "panicked"
    client_ucp,         \* UcpClient.ucp
    client_update_time, \* UcpClient.update_time
    server_proc,        \* "off", "running" (after UcpServer::listen), "panicked"
    ucp_map,            \* UcpServer.ucp_map: remote address -> UcpStreamImpl
    server_update_time, \* UcpServer.update_time
    on_new_ucp,         \* UcpServer.on_new_ucp is Some(callback)
    new_ucp_log,        \* history: the invocations of the on_new_ucp callback
    sent,               \* history: the datagrams given to socket.send_to
    app,                \* history: what the application did through its handle
    last,               \* history: the operation the last step performed
    codec               \* the UcpPacket under test of CodecSpec

vars == <<clock, client_proc, client_ucp, client_update_time, server_proc,
          ucp_map, server_update_time, on_new_ucp, new_ucp_log, sent, app,
          last, codec>>

With(v, F(_)) == F(v)

---------------------------------------------------------------------------
(* Program constants.                                                      *)

CMD_SYN == 128
CMD_SYN_ACK == 129
CMD_ACK == 130
CMD_DATA == 131
CMD_HEARTBEAT == 132
CMD_HEARTBEAT_ACK == 133
UCP_PACKET_META_SIZE == 29
DEFAULT_WINDOW == 256
DEFAULT_RTO == 100
BUF_LEN == 1400
UPDATE_INTERVAL_MS == 10

---------------------------------------------------------------------------
(* u32 arithmetic on <<hi, lo>> pairs.                                     *)

Half == 256 * 256

U32(n) == <<n \div Half, n % Half>>

U32Zero == <<0, 0>>

\* The value as a natural number; only used on values below 2^31.
U32Nat(a) == a[1] * Half + a[2]

U32Less(a, b) == a[1] < b[1] \/ (a[1] = b[1] /\ a[2] < b[2])

\* a + b: the wrapped sum and whether it overflowed.
U32Add(a, b) ==
    With(a[1] + b[1] + ((a[2] + b[2]) \div Half), LAMBDA hi :
        [v |-> <<hi % Half, (a[2] + b[2]) % Half>>, overflow |-> hi >= Half])

\* a - b: the wrapped difference and whether it underflowed.
U32Sub(a, b) ==
    With(a[1] - b[1] - (IF a[2] < b[2] THEN 1 ELSE 0), LAMBDA hi :
        [v |-> <<(hi + Half) % Half, (a[2] - b[2] + Half) % Half>>,
         overflow |-> hi < 0])

U32Div2(a) == <<a[1] \div 2, (a[2] \div 2) + (a[1] % 2) * 32768>>

U32Shr8(a) == <<a[1] \div 256, (a[2] \div 256) + (a[1] % 256) * 256>>

RECURSIVE Xor(_, _)
Xor(a, b) ==
    IF a = 0 THEN b
    ELSE IF b = 0 THEN a
    ELSE ((a + b) % 2) + 2 * Xor(a \div 2, b \div 2)

U32Xor(a, b) == <<Xor(a[1], b[1]), Xor(a[2], b[2])>>

\* usize < (u32 as usize), as in send_queue.len() < remote_window.
LenLess(n, w) == w[1] > 0 \/ n < w[2]

---------------------------------------------------------------------------
(* crc::crc32::checksum_ieee: the reflected CRC-32 of the crc crate        *)
(* (polynomial 0xEDB88320, initial value and final xor 0xFFFFFFFF).        *)

CrcPoly == <<60856, 33568>>

AllOnes == <<65535, 65535>>

crc_bit(c) == IF c[2] % 2 = 1 THEN U32Xor(U32Div2(c), CrcPoly) ELSE U32Div2(c)

crc_table_entry(b) ==
    crc_bit(crc_bit(crc_bit(crc_bit(crc_bit(crc_bit(crc_bit(crc_bit(<<0, b>>))))))))

crc_table == [b \in 0..255 |-> crc_table_entry(b)]

crc_step(c, byte) == U32Xor(crc_table[Xor(c[2] % 256, byte)], U32Shr8(c))

RECURSIVE crc_update(_, _, _)
crc_update(c, bytes, i) ==
    IF i > Len(bytes) THEN c
    ELSE With(crc_step(c, bytes[i]), LAMBDA c2 :
             IF c2[1] >= 0 THEN crc_update(c2, bytes, i + 1) ELSE c2)

checksum_ieee(bytes) == U32Xor(crc_update(AllOnes, bytes, 1), AllOnes)

---------------------------------------------------------------------------
(* UcpPacket.                                                              *)

\* u32::to_be / u32::from_be of a value stored at a byte offset.
BeBytes(u) == <<u[1] \div 256, u[1] % 256, u[2] \div 256, u[2] % 256>>

FromBe(b) == <<b[1] * 256 + b[2], b[3] * 256 + b[4]>>

\* buf[off], off counted from 0.
BufGet(buf, off) == IF off < Len(buf) THEN buf[off + 1] ELSE 0

\* n zero bytes.
Zeros(n) == [i \in 1..n |-> 0]

\* The first n bytes of buf (n >= Len(buf) pads with the zeros beyond).
BufPrefix(buf, n) ==
    IF n <= Len(buf) THEN SubSeq(buf, 1, n) ELSE buf \o Zeros(n - Len(buf))

\* buf with bytes stored from offset off on.
BufPut(buf, off, bytes) ==
    BufPrefix(buf, off) \o bytes \o SubSeq(buf, off + Len(bytes) + 1, Len(buf))

\* &buf[from..to]; the caller has checked from <= to <= BUF_LEN.
BufSlice(buf, from, to) == SubSeq(BufPrefix(buf, to), from + 1, to)

UcpPacket_new ==
    [buf |-> <<>>, size |-> 0, payload |-> 0,
     session_id |-> U32Zero, timestamp |-> U32Zero, window |-> U32Zero,
     xmit |-> U32Zero, una |-> U32Zero, seq |-> U32Zero, cmd |-> 0]

parse_u32(p, offset) ==
    FromBe(<<BufGet(p.buf, offset), BufGet(p.buf, offset + 1),
             BufGet(p.buf, offset + 2), BufGet(p.buf, offset + 3)>>)

parse_u8(p, offset) == BufGet(p.buf, offset)

write_u32(p, offset, u) == [p EXCEPT !.buf = BufPut(p.buf, offset, BeBytes(u))]

write_u8(p, offset, u) == [p EXCEPT !.buf = BufPut(p.buf, offset, <<u>>)]

\* Evaluated only when size > UCP_PACKET_META_SIZE, so the slice is in range.
is_crc32_correct(p) ==
    checksum_ieee(BufSlice(p.buf, 4, p.size)) = parse_u32(p, 0)

is_legal(p) == p.size > UCP_PACKET_META_SIZE /\ is_crc32_correct(p)

\* A parse that accepts every command byte: what C7 rules out.
parse_any_cmd(p) ==
    IF ~is_legal(p) THEN [ok |-> FALSE, p |-> p]
    ELSE [ok |-> TRUE,
          p |-> [p EXCEPT !.payload = (p.size - UCP_PACKET_META_SIZE) % 65536,
                          !.session_id = parse_u32(p, 4),
                          !.timestamp = parse_u32(p, 8),
                          !.window = parse_u32(p, 12),
                          !.xmit = parse_u32(p, 16),
                          !.una = parse_u32(p, 20),
                          !.seq = parse_u32(p, 24),
                          !.cmd = parse_u8(p, 28)]]

\* parse: [ok, p], the returned bool and the packet afterwards.
parse(p) ==
    IF ~is_legal(p) THEN [ok |-> FALSE, p |-> p]
    ELSE With([p EXCEPT !.payload = (p.size - UCP_PACKET_META_SIZE) % 65536,
                        !.session_id = parse_u32(p, 4),
                        !.timestamp = parse_u32(p, 8),
                        !.window = parse_u32(p, 12),
                        !.xmit = parse_u32(p, 16),
                        !.una = parse_u32(p, 20),
                        !.seq = parse_u32(p, 24),
                        !.cmd = parse_u8(p, 28)],
              LAMBDA q : [ok |-> q.cmd >= CMD_SYN /\ q.cmd <= CMD_HEARTBEAT_ACK,
                          p |-> q])

\* The header as pack writes it at offsets 4..28.
pack_header(p) ==
    write_u8(write_u32(write_u32(write_u32(write_u32(write_u32(write_u32(p,
        4, p.session_id), 8, p.timestamp), 12, p.window), 16, p.xmit),
        20, p.una), 24, p.seq), 28, p.cmd)

\* pack: [panic, p].  &self.buf[4..self.size] is taken with the size the
\* packet has when pack is called: it panics when 4 > size (a packet made by
\* UcpPacket::new has size 0) or size > BUF_LEN.
pack(p) ==
    With(pack_header(p), LAMBDA h :
        IF 4 > h.size \/ h.size > BUF_LEN THEN [panic |-> TRUE, p |-> h]
        ELSE [panic |-> FALSE,
              p |-> [write_u32(h, 0, checksum_ieee(BufSlice(h.buf, 4, h.size)))
                        EXCEPT !.size = h.payload + UCP_PACKET_META_SIZE]])

packed_buffer(p) == BufSlice(p.buf, 0, p.size)

is_syn(p) == p.cmd = CMD_SYN

remaining_load(p) == BUF_LEN - p.payload - UCP_PACKET_META_SIZE

payload_start(p) == UCP_PACKET_META_SIZE

payload_offset(p) == p.payload + UCP_PACKET_META_SIZE

\* payload_write_u32: [ok, p].
payload_write_u32(p, u) ==
    IF remaining_load(p) >= 4
    THEN [ok |-> TRUE,
          p |-> [write_u32(p, payload_offset(p), u) EXCEPT !.payload = @ + 4]]
    ELSE [ok |-> FALSE, p |-> p]

\* payload_write_slice: [ok, p].  The payload length is left as it was.
payload_write_slice(p, bytes) ==
    IF remaining_load(p) >= Len(bytes)
    THEN [ok |-> TRUE, p |-> [p EXCEPT !.buf = BufPut(p.buf, payload_offset(p), bytes)]]
    ELSE [ok |-> FALSE, p |-> p]

\* socket.recv_from(&mut packet.buf) followed by packet.size = size, on a
\* packet made by UcpPacket::new.
recv_from(bytes) == [UcpPacket_new EXCEPT !.buf = bytes, !.size = Len(bytes)]

---------------------------------------------------------------------------
(* UcpStreamImpl.  Its methods work on an execution context               *)
(* x = [u, out, panic].  now is get_time() in milliseconds; checks is      *)
(* whether the build traps integer overflow (debug) or wraps (release).    *)

NONE == "NONE"
ACCEPTING == "ACCEPTING"
CONNECTING == "CONNECTING"
ESTABLISHED == "ESTABLISHED"

UcpStreamImpl_new(remote_addr, now) ==
    [remote_addr |-> remote_addr, initial_time |-> now, state |-> NONE,
     send_queue |-> <<>>, recv_queue |-> <<>>, send_buffer |-> <<>>,
     ack_list |-> <<>>, local_window |-> U32(DEFAULT_WINDOW),
     remote_window |-> U32(DEFAULT_WINDOW), rto |-> U32(DEFAULT_RTO),
     session_id |-> U32Zero, seq |-> U32Zero, una |-> U32Zero]

\* on_update and on_readable are stored by the setters and read by nothing;
\* they are not part of the record.

Ctx(u) == [u |-> u, out |-> <<>>, panic |-> FALSE]

Panic(x) == [x EXCEPT !.panic = TRUE]

\* send, recv and update have empty bodies (recv returns 0).
send(x, buf) == x

recv(x, cap) == [x |-> x, ret |-> 0]

update(x) == x

timestamp(u, now) == U32(now - u.initial_time)

\* next_seq: [x, ret].
next_seq(x, checks) ==
    With(U32Add(x.u.seq, U32(1)), LAMBDA s :
        IF s.overflow /\ checks THEN [x |-> Panic(x), ret |-> x.u.seq]
        ELSE [x |-> [x EXCEPT !.u.seq = s.v], ret |-> s.v])

\* new_packet: [x, packet].
new_packet(x, cmd, now, checks) ==
    With(next_seq(x, checks), LAMBDA n :
        [x |-> n.x,
         packet |-> [UcpPacket_new EXCEPT
                        !.session_id = x.u.session_id,
                        !.timestamp = timestamp(x.u, now),
                        !.window = x.u.local_window,
                        !.seq = n.ret,
                        !.una = x.u.una,
                        !.cmd = cmd]])

new_ack_packet(x, now) ==
    [UcpPacket_new EXCEPT
        !.session_id = x.u.session_id,
        !.timestamp = timestamp(x.u, now),
        !.window = x.u.local_window,
        !.una = x.u.una,
        !.cmd = CMD_ACK]

\* send_packet_directly: [x, packet], the packet as pack leaves it.  The
\* result of socket.send_to is discarded.
send_packet_directly(x, packet) ==
    IF x.panic THEN [x |-> x, packet |-> packet]
    ELSE With(pack(packet), LAMBDA pk :
            IF pk.panic THEN [x |-> Panic(x), packet |-> pk.p]
            ELSE [x |-> [x EXCEPT !.out = Append(@, [to |-> x.u.remote_addr,
                                                     bytes |-> packed_buffer(pk.p)])],
                  packet |-> pk.p])

send_packet(x, packet) ==
    IF x.panic THEN x
    ELSE IF LenLess(Len(x.u.send_queue), x.u.remote_window)
    THEN With(send_packet_directly(x, packet), LAMBDA d :
            IF d.x.panic THEN d.x
            ELSE [d.x EXCEPT !.u.send_queue = Append(@, d.packet)])
    ELSE [x EXCEPT !.u.send_buffer = Append(@, packet)]

\* The index of the first send_queue entry with this seq, 0 if there is none.
FirstWithSeq(q, seq) ==
    IF \E i \in 1..Len(q) : q[i].seq = seq
    THEN CHOOSE i \in 1..Len(q) : q[i].seq = seq /\ \A j \in 1..(i - 1) : q[j].seq # seq
    ELSE 0

RemoveAt(q, i) == SubSeq(q, 1, i - 1) \o SubSeq(q, i + 1, Len(q))

\* A match that leaves the acknowledged packet in send_queue: what C4 rules
\* out.
process_ack_match_keep(x, i, rtt, checks) ==
    With(U32Add(x.u.rto, rtt.v), LAMBDA sum :
        IF checks /\ (rtt.overflow \/ sum.overflow)
        THEN [x |-> Panic(x), ret |-> FALSE]
        ELSE [x |-> [x EXCEPT !.u.rto = U32Div2(sum.v)], ret |-> TRUE])

\* A match that adds the sample to rto without halving: what C10 rules out.
process_ack_match_no_halving(x, i, rtt, checks) ==
    With(U32Add(x.u.rto, rtt.v), LAMBDA sum :
        IF checks /\ (rtt.overflow \/ sum.overflow)
        THEN [x |-> Panic(x), ret |-> FALSE]
        ELSE [x |-> [x EXCEPT !.u.rto = sum.v,
                              !.u.send_queue = RemoveAt(@, i)],
              ret |-> TRUE])

\* The body of process_ack's loop at the matching index i: [x, ret].
process_ack_match(x, i, rtt, checks) ==
    With(U32Add(x.u.rto, rtt.v), LAMBDA sum :
        IF checks /\ (rtt.overflow \/ sum.overflow)
        THEN [x |-> Panic(x), ret |-> FALSE]
        ELSE [x |-> [x EXCEPT !.u.rto = U32Div2(sum.v),
                              !.u.send_queue = RemoveAt(@, i)],
              ret |-> TRUE])

\* process_ack: [x, ret].
process_ack(x, seq, ts, now, checks) ==
    IF x.panic THEN [x |-> x, ret |-> FALSE]
    ELSE With(FirstWithSeq(x.u.send_queue, seq), LAMBDA i :
            IF i = 0 THEN [x |-> x, ret |-> FALSE]
            ELSE process_ack_match(x, i, U32Sub(timestamp(x.u, now), ts), checks))

connecting(x, session_id, now, checks) ==
    With(new_packet([x EXCEPT !.u.state = CONNECTING, !.u.session_id = session_id],
                    CMD_SYN, now, checks),
         LAMBDA syn : send_packet(syn.x, syn.packet))

accepting(x, packet, now, checks) ==
    With(new_packet([x EXCEPT !.u.state = ACCEPTING,
                              !.u.session_id = packet.session_id,
                              !.u.remote_window = packet.window],
                    CMD_SYN_ACK, now, checks),
         LAMBDA syn_ack :
            send_packet(syn_ack.x,
                        payload_write_u32(payload_write_u32(syn_ack.packet, packet.seq).p,
                                          packet.timestamp).p))

process_state_accepting(x, packet) == x

process_state_established(x, packet) == x

\* The ACK that answers a SYN_ACK.
handshake_ack(x, packet, now) ==
    payload_write_u32(payload_write_u32(new_ack_packet(x, now), packet.seq).p,
                      packet.timestamp).p

\* A process_state_connecting that takes the echo of any command for the
\* SYN_ACK's: what C13 rules out.
process_state_connecting_any_cmd(x, packet, now, checks) ==
    IF packet.payload = 8
    THEN With(process_ack(x, parse_u32(packet, payload_start(packet)),
                          parse_u32(packet, payload_start(packet) + 4), now, checks),
              LAMBDA a :
                 IF a.x.panic \/ ~a.ret THEN a.x
                 ELSE With(send_packet_directly(a.x, handshake_ack(a.x, packet, now)),
                           LAMBDA d : IF d.x.panic THEN d.x
                                      ELSE [d.x EXCEPT !.u.state = ESTABLISHED]))
    ELSE x

process_state_connecting(x, packet, now, checks) ==
    IF packet.cmd = CMD_SYN_ACK /\ packet.payload = 8
    THEN With(process_ack(x, parse_u32(packet, payload_start(packet)),
                          parse_u32(packet, payload_start(packet) + 4), now, checks),
              LAMBDA a :
                 IF a.x.panic \/ ~a.ret THEN a.x
                 ELSE With(send_packet_directly(a.x, handshake_ack(a.x, packet, now)),
                           LAMBDA d : IF d.x.panic THEN d.x
                                      ELSE [d.x EXCEPT !.u.state = ESTABLISHED]))
    ELSE x

\* processing after the session check and the window update.
processing_state(x, packet, now, checks) ==
    CASE x.u.state = ACCEPTING -> process_state_accepting(x, packet)
      [] x.u.state = CONNECTING -> process_state_connecting(x, packet, now, checks)
      [] x.u.state = ESTABLISHED -> process_state_established(x, packet)
      [] OTHER -> x

processing(x, packet, now, checks) ==
    IF x.u.session_id # packet.session_id THEN x
    ELSE processing_state([x EXCEPT !.u.remote_window = packet.window],
                          packet, now, checks)

\* A process_packet without the address check: what C6 rules out.
UcpStreamImpl_process_packet_any_addr(x, packet, remote_addr, now, checks) ==
    IF x.u.state = NONE
    THEN IF is_syn(packet) THEN accepting(x, packet, now, checks) ELSE x
    ELSE processing(x, packet, now, checks)

\* A process_packet that accepts a SYN in every state: what C20 rules out.
UcpStreamImpl_process_packet_syn_any_state(x, packet, remote_addr, now, checks) ==
    IF x.u.remote_addr # remote_addr THEN x
    ELSE IF is_syn(packet) THEN accepting(x, packet, now, checks)
    ELSE IF x.u.state = NONE THEN x
    ELSE processing(x, packet, now, checks)

UcpStreamImpl_process_packet(x, packet, remote_addr, now, checks) ==
    IF x.u.remote_addr # remote_addr THEN x
    ELSE IF x.u.state = NONE
    THEN IF is_syn(packet) THEN accepting(x, packet, now, checks) ELSE x
    ELSE processing(x, packet, now, checks)

---------------------------------------------------------------------------
(* Bounds of the model and the datagrams the network can deliver.          *)

MaxSessionId == 1
MaxWindow == 1
MaxTicks == 1
MaxSent == 2
MaxQueue == 2
MaxAppCalls == 1

ClockStep == UPDATE_INTERVAL_MS

MaxClock == MaxTicks * ClockStep

ServerAddr == "server"
ClientAddr == "client"
PeerAddr == "peer"

\* Who can send to the server, and to the client.
ServerSources == {ClientAddr, PeerAddr}

ClientSources == {ServerAddr, PeerAddr}

SessionIds == 0..MaxSessionId

Windows == 0..MaxWindow

\* A datagram as a remote peer with a correct encoder puts it on the wire:
\* the 29-byte header, the payload, the CRC-32 of bytes 4..end in front.
PeerDatagram(cmd, session_id, window, seq, ts, payload) ==
    packed_buffer(pack([UcpPacket_new EXCEPT
                           !.buf = BufPut(<<>>, UCP_PACKET_META_SIZE, payload),
                           !.payload = Len(payload),
                           !.size = UCP_PACKET_META_SIZE + Len(payload),
                           !.session_id = U32(session_id), !.window = U32(window),
                           !.seq = U32(seq), !.timestamp = U32(ts), !.cmd = cmd]).p)

\* The 8-byte payload of a SYN_ACK or ACK: the echoed seq and timestamp.
Echo(seq, ts) == BeBytes(seq) \o BeBytes(ts)

\* A datagram with its last byte changed: its checksum no longer matches.
Corrupt(d) == [d EXCEPT ![Len(d)] = (@ + 1) % 256]

\* The sequence numbers of the peer's first DATA packets: its SYN_ACK was
\* its packet 1.
DataSeqs == {2, 3}

\* A sequence number no connection of the model has given a packet.
UnsentSeq == MaxQueue + 2

\* SYN_ACKs that acknowledge nothing in flight: one echoes UnsentSeq, one
\* has a payload of one byte.
Unmatched ==
    {PeerDatagram(CMD_SYN_ACK, 1, 1, 1, 0, Echo(U32(UnsentSeq), U32Zero)),
     PeerDatagram(CMD_SYN_ACK, 1, 1, 1, 0, <<7>>)}

WellFormed ==
    {PeerDatagram(CMD_SYN, s, w, 1, 0, <<7>>) : s \in SessionIds, w \in Windows}
    \cup {PeerDatagram(CMD_SYN_ACK, 1, 1, 1, 0, Echo(U32(1), t)) :
            t \in {U32Zero, AllOnes}}
    \cup Unmatched
    \cup {PeerDatagram(CMD_ACK, 1, 1, 0, 0, Echo(U32(1), U32Zero))}
    \cup {PeerDatagram(CMD_DATA, 1, 1, q, 0, <<9>>) : q \in DataSeqs}

Malformed ==
    {PeerDatagram(CMD_SYN, 1, 1, 1, 0, <<>>),
     PeerDatagram(CMD_HEARTBEAT_ACK + 1, 1, 1, 1, 0, <<7>>),
     PeerDatagram(CMD_SYN - 1, 1, 1, 1, 0, <<7>>),
     Corrupt(PeerDatagram(CMD_SYN, 1, 1, 1, 0, <<7>>)),
     <<1, 2, 3>>}

Datagrams == WellFormed \cup Malformed

\* What the event loops do with a received datagram before anything else:
\* recv_from into a new packet, then parse.  Computed once per datagram.
DecodeTable == {[bytes |-> d, r |-> parse(recv_from(d))] : d \in Datagrams}

Decode(d) ==
    IF d \in Datagrams THEN (CHOOSE e \in DecodeTable : e.bytes = d).r
    ELSE parse(recv_from(d))

\* The datagrams that can arrive at an address from a source: those of the
\* network's peers (any of them, under any source address) and those the
\* program itself sent from the one to the other.  The SYN_ACKs of Unmatched
\* are offered to the client alone: the server has no state that reads a
\* SYN_ACK.
Arriving(to, from) ==
    (IF to = ServerAddr THEN Datagrams \ Unmatched ELSE Datagrams)
    \cup {sent[i].bytes :
                      i \in {j \in 1..Len(sent) : sent[j].to = to /\ sent[j].from = from}}

\* The datagrams of one call, as the socket at address from sends them.
Sent(from, out) ==
    [i \in 1..Len(out) |-> [from |-> from, to |-> out[i].to, bytes |-> out[i].bytes]]

---------------------------------------------------------------------------
(* UcpClient and UcpServer.                                                *)

\* UcpClient::update / UcpServer::update: the new update_time.  The
\* connections' own update() is empty.
update_time_after(update_time, now) ==
    IF now - update_time < UPDATE_INTERVAL_MS THEN update_time ELSE now

\* Whether update() of UcpClient / UcpServer gets past its rate limit.
update_due(update_time, now) == ~(now - update_time < UPDATE_INTERVAL_MS)

\* UcpClient::update: the connection after it.
UcpClient_update(u, update_time, now) ==
    IF update_due(update_time, now) THEN update(Ctx(u)).u ELSE u

\* UcpServer::update: the registry after it.
UcpServer_update(map, update_time, now) ==
    IF update_due(update_time, now) /\ DOMAIN map # {}
    THEN [a \in DOMAIN map |-> update(Ctx(map[a])).u]
    ELSE map

\* UcpClient::connect: the context after UcpStreamImpl::new and connecting().
UcpClient_connect(session_id, now, checks) ==
    connecting(Ctx(UcpStreamImpl_new(ServerAddr, now)), session_id, now, checks)

\* The times the clock can show.
Times == {t * ClockStep : t \in 0..MaxTicks}

\* connect() for each session id, time and build, computed once.
ConnectTable ==
    {[session_id |-> U32(s), now |-> t, checks |-> c,
      x |-> UcpClient_connect(U32(s), t, c)] :
        s \in SessionIds, t \in Times, c \in BOOLEAN}

Connect(session_id, now, checks) ==
    (CHOOSE e \in ConnectTable :
        e.session_id = session_id /\ e.now = now /\ e.checks = checks).x

\* UcpClient::process_packet on the bytes recv_from returned.
UcpClient_process_packet(u, bytes, remote_addr, now, checks) ==
    With(Decode(bytes), LAMBDA r :
        IF ~r.ok THEN Ctx(u)
        ELSE UcpStreamImpl_process_packet(Ctx(u), r.p, remote_addr, now, checks))

\* UcpServer::new_ucp_stream: [map, log, out, panic].  The callback gets its
\* handle before the connection has seen the SYN; the registry entry and the
\* handle share the connection.
UcpServer_new_ucp_stream(map, log, cb, packet, remote_addr, now, checks) ==
    With(UcpStreamImpl_new(remote_addr, now), LAMBDA u :
    With(UcpStreamImpl_process_packet(Ctx(u), packet, remote_addr, now, checks),
         LAMBDA x :
            [map |-> (remote_addr :> x.u) @@ map,
             log |-> IF cb THEN Append(log, [addr |-> remote_addr, state |-> u.state])
                     ELSE log,
             out |-> x.out, panic |-> x.panic]))

\* A routing that makes a new connection for the address and puts it in the
\* place of the old one: what C18 rules out.
UcpServer_route_fresh(map, log, packet, remote_addr, now, checks) ==
    With(UcpStreamImpl_process_packet(Ctx(UcpStreamImpl_new(remote_addr, now)),
                                      packet, remote_addr, now, checks),
         LAMBDA x : [map |-> [map EXCEPT ![remote_addr] = x.u], log |-> log,
                     out |-> x.out, panic |-> x.panic])

\* The connection of a known address is given the packet.
UcpServer_route(map, log, packet, remote_addr, now, checks) ==
    With(UcpStreamImpl_process_packet(Ctx(map[remote_addr]), packet, remote_addr,
                                      now, checks),
         LAMBDA x : [map |-> [map EXCEPT ![remote_addr] = x.u], log |-> log,
                     out |-> x.out, panic |-> x.panic])

\* A process_packet that does not look the address up: what C5 rules out.
UcpServer_process_packet_always_new(map, log, cb, bytes, remote_addr, now, checks) ==
    With(Decode(bytes), LAMBDA r :
        IF ~r.ok THEN [map |-> map, log |-> log, out |-> <<>>, panic |-> FALSE]
        ELSE IF is_syn(r.p)
        THEN UcpServer_new_ucp_stream(map, log, cb, r.p, remote_addr, now, checks)
        ELSE [map |-> map, log |-> log, out |-> <<>>, panic |-> FALSE])

\* UcpServer::process_packet: [map, log, out, panic].
UcpServer_process_packet(map, log, cb, bytes, remote_addr, now, checks) ==
    With(Decode(bytes), LAMBDA r :
        IF ~r.ok THEN [map |-> map, log |-> log, out |-> <<>>, panic |-> FALSE]
        ELSE IF remote_addr \in DOMAIN map
        THEN UcpServer_route(map, log, r.p, remote_addr, now, checks)
        ELSE IF is_syn(r.p)
        THEN UcpServer_new_ucp_stream(map, log, cb, r.p, remote_addr, now, checks)
        ELSE [map |-> map, log |-> log, out |-> <<>>, panic |-> FALSE])

---------------------------------------------------------------------------
(* History variables.                                                      *)

\* op: the operation; addr, genuine, malformed, ok, cmd, session_id, pseq,
\* ptimestamp, window, payload, echo_seq, echo_ts: the source of the datagram
\* an event loop received, whether the program at that address had sent it,
\* whether the datagram is one of Malformed, whether parse accepted it, and
\* its command, session, sequence number, timestamp, window and payload
\* length as parsed, with the two words an 8-byte payload holds; updated:
\* an iteration of the event loop in which recv_from timed out got past the
\* rate limit of update() and ran the connections' update(); seq, ts,
\* ret: the arguments and the result of a direct call of process_ack; panic:
\* the operation panicked.
NoEvent ==
    [op |-> "none", addr |-> "-", genuine |-> FALSE, malformed |-> FALSE, ok |-> FALSE, cmd |-> 0,
     session_id |-> U32Zero, pseq |-> U32Zero, ptimestamp |-> U32Zero,
     window |-> U32Zero, payload |-> 0, echo_seq |-> U32Zero, echo_ts |-> U32Zero,
     updated |-> FALSE, seq |-> U32Zero, ts |-> U32Zero,
     ret |-> FALSE, panic |-> FALSE]

\* The event of an iteration of the event loop at address to that received
\* datagram d from a.
RecvEvent(op, to, a, d, panic) ==
    With(Decode(d), LAMBDA r :
        [NoEvent EXCEPT !.op = op, !.addr = a,
                        !.genuine = \E i \in 1..Len(sent) :
                                       sent[i] = [from |-> a, to |-> to, bytes |-> d],
                        !.malformed = d \in Malformed,
                        !.ok = r.ok,
                        !.cmd = IF r.ok THEN r.p.cmd ELSE 0,
                        !.session_id = IF r.ok THEN r.p.session_id ELSE U32Zero,
                        !.pseq = IF r.ok THEN r.p.seq ELSE U32Zero,
                        !.ptimestamp = IF r.ok THEN r.p.timestamp ELSE U32Zero,
                        !.window = IF r.ok THEN r.p.window ELSE U32Zero,
                        !.payload = IF r.ok THEN r.p.payload ELSE 0,
                        !.echo_seq = IF r.ok /\ r.p.payload = 8
                                     THEN parse_u32(r.p, payload_start(r.p))
                                     ELSE U32Zero,
                        !.echo_ts = IF r.ok /\ r.p.payload = 8
                                    THEN parse_u32(r.p, payload_start(r.p) + 4)
                                    ELSE U32Zero,
                        !.panic = panic])

\* submitted: the send() calls since the connection last changed by
\* processing a datagram or an acknowledgment; from_empty, transmitted:
\* whether send_queue and send_buffer were empty, and the length of sent,
\* when the first of them was made; received: the bytes the recv() calls
\* returned; arrived: the sequence numbers of the DATA packets an
\* ESTABLISHED connection was given.
AppInit ==
    [submitted |-> 0, from_empty |-> FALSE, transmitted |-> 0, received |-> 0,
     arrived |-> {}]

CodecIdle ==
    [phase |-> "idle", pkt |-> UcpPacket_new, written |-> <<>>, fresh |-> TRUE,
     rx_ok |-> FALSE, rx |-> UcpPacket_new]

---------------------------------------------------------------------------
(* The system: a server after listen(), a client that may call connect(),  *)
(* and a network that delivers any datagram of Datagrams from any source.  *)

Init ==
    /\ clock = 0
    /\ client_proc = "idle"
    /\ client_ucp = UcpStreamImpl_new(ServerAddr, 0)
    /\ client_update_time = 0
    /\ server_proc = "running"
    /\ ucp_map = <<>>
    /\ server_update_time = 0
    /\ on_new_ucp = TRUE
    /\ new_ucp_log = <<>>
    /\ sent = <<>>
    /\ app = AppInit
    /\ last = NoEvent
    /\ codec = CodecIdle

\* Time passes.
Tick ==
    /\ clock + ClockStep <= MaxClock
    /\ clock' = clock + ClockStep
    /\ last' = [NoEvent EXCEPT !.op = "tick"]
    /\ UNCHANGED <<client_proc, client_ucp, client_update_time, server_proc,
                   ucp_map, server_update_time, on_new_ucp, new_ucp_log, sent,
                   app, codec>>

\* UcpClient::connect(server_addr).  When it panics, the connection it was
\* building is dropped by the unwinding and no UcpClient comes to exist.
ClientConnect ==
    /\ client_proc = "idle"
    /\ Len(sent) < MaxSent
    /\ \E sid \in SessionIds, checks \in BOOLEAN :
          With(Connect(U32(sid), clock, checks), LAMBDA x :
              /\ client_proc' = IF x.panic THEN "panicked" ELSE "running"
              /\ client_ucp' = IF x.panic THEN client_ucp ELSE x.u
              /\ client_update_time' = IF x.panic THEN client_update_time ELSE clock
              /\ sent' = sent \o Sent(ClientAddr, x.out)
              /\ last' = [NoEvent EXCEPT !.op = "connect", !.panic = x.panic])
    /\ UNCHANGED <<clock, server_proc, ucp_map, server_update_time, on_new_ucp,
                   new_ucp_log, app, codec>>

\* One iteration of UcpServer::run in which recv_from returned a datagram.
ServerRecv ==
    /\ server_proc = "running"
    /\ Len(sent) < MaxSent
    /\ \E a \in ServerSources, checks \in BOOLEAN :
       \E d \in Arriving(ServerAddr, a) :
          With(UcpServer_process_packet(ucp_map, new_ucp_log, on_new_ucp,
                                        d, a, clock, checks),
               LAMBDA res :
                  /\ server_proc' = IF res.panic THEN "panicked" ELSE "running"
                  /\ ucp_map' = IF res.panic THEN res.map
                                 ELSE UcpServer_update(res.map, server_update_time,
                                                       clock)
                  /\ new_ucp_log' = res.log
                  /\ sent' = sent \o Sent(ServerAddr, res.out)
                  /\ server_update_time' =
                        IF res.panic THEN server_update_time
                        ELSE update_time_after(server_update_time, clock)
                  /\ last' = RecvEvent("server_recv", ServerAddr, a, d, res.panic))
    /\ UNCHANGED <<clock, client_proc, client_ucp, client_update_time,
                   on_new_ucp, app, codec>>

\* One iteration of UcpServer::run in which recv_from timed out.
ServerIdle ==
    /\ server_proc = "running"
    /\ ucp_map' = UcpServer_update(ucp_map, server_update_time, clock)
    /\ server_update_time' = update_time_after(server_update_time, clock)
    /\ last' = [NoEvent EXCEPT !.op = "server_idle",
                               !.updated = update_due(server_update_time, clock)]
    /\ UNCHANGED <<clock, client_proc, client_ucp, client_update_time,
                   server_proc, on_new_ucp, new_ucp_log, sent, app, codec>>

Next == Tick \/ ClientConnect \/ ServerRecv \/ ServerIdle

Spec == Init /\ [][Next]_vars

\* connect() is called and the server's loop keeps running: its recv_from
\* returns after the read timeout when no datagram arrives.
FairSpec == Spec /\ WF_vars(ClientConnect) /\ WF_vars(ServerIdle)

---------------------------------------------------------------------------
(* The harnesses: a UcpClient whose connection is set up field by field,   *)
(* as a test inside the crate sets it up, so that the methods of           *)
(* UcpStreamImpl are exercised on connections that are ACCEPTING,        *)
(* CONNECTING or ESTABLISHED and have packets in flight.                   *)

\* A packet as new_packet builds it for session 1 at time 0.
HarnessPacket(seq, cmd) ==
    [UcpPacket_new EXCEPT !.session_id = U32(1), !.window = U32(DEFAULT_WINDOW),
                          !.seq = U32(seq), !.cmd = cmd]

\* The SYN_ACK (seq 1) accepting() builds for a SYN of seq 1, timestamp 0.
HarnessSynAck ==
    payload_write_u32(payload_write_u32(HarnessPacket(1, CMD_SYN_ACK), U32(1)).p,
                      U32Zero).p

\* k packets in flight: the SYN (seq 1) and DATA of a CONNECTING connection,
\* the SYN_ACK (seq 1) and DATA of an ACCEPTING one, the DATA (seq 2 on) of
\* an ESTABLISHED one.
HarnessQueue(state, k) ==
    CASE state = CONNECTING ->
            [i \in 1..k |-> HarnessPacket(i, IF i = 1 THEN CMD_SYN ELSE CMD_DATA)]
      [] state = ACCEPTING ->
            [i \in 1..k |-> IF i = 1 THEN HarnessSynAck
                            ELSE HarnessPacket(i, CMD_DATA)]
      [] OTHER -> [i \in 1..k |-> HarnessPacket(i + 1, CMD_DATA)]

HarnessStream(state, k, w, rto) ==
    [UcpStreamImpl_new(ServerAddr, 0) EXCEPT
        !.state = state, !.session_id = U32(1),
        !.seq = U32(IF state = ESTABLISHED THEN k + 1 ELSE k),
        !.send_queue = HarnessQueue(state, k),
        !.remote_window = U32(w), !.rto = rto]

\* Connections with 0..MaxQueue packets in flight, for the calls of
\* process_ack.
AckStates ==
    {HarnessStream(CONNECTING, k, DEFAULT_WINDOW, rto) :
        k \in 1..MaxQueue, rto \in {U32Zero, U32(DEFAULT_RTO)}}
    \cup {HarnessStream(ESTABLISHED, k, DEFAULT_WINDOW, rto) :
            k \in 0..MaxQueue, rto \in {U32Zero, U32(DEFAULT_RTO)}}

\* A connection whose SYN is in flight and one with nothing in flight, for
\* the datagrams of the event loop and the calls through the handle.  The
\* window is the one the last packet of the peer advertised: it leaves room
\* for what is in flight.
RecvStates ==
    {HarnessStream(CONNECTING, 1, w, U32(DEFAULT_RTO)) : w \in Windows \ {0}}
    \cup {HarnessStream(ESTABLISHED, 0, w, U32(DEFAULT_RTO)) : w \in Windows}

\* With them, a connection whose SYN_ACK is in flight.
AppStates ==
    RecvStates
    \cup {HarnessStream(ACCEPTING, 1, w, U32(DEFAULT_RTO)) : w \in Windows \ {0}}

HarnessInit(states) ==
    /\ clock = 0
    /\ client_proc = "running"
    /\ client_ucp \in states
    /\ client_update_time = 0
    /\ server_proc = "off"
    /\ ucp_map = <<>>
    /\ server_update_time = 0
    /\ on_new_ucp = TRUE
    /\ new_ucp_log = <<>>
    /\ sent = <<>>
    /\ app = AppInit
    /\ last = NoEvent
    /\ codec = CodecIdle

\* The connection was given a DATA packet it does not filter out.
DataArrived(u, ev) ==
    /\ ev.ok
    /\ ev.cmd = CMD_DATA
    /\ ev.addr = u.remote_addr
    /\ ev.session_id = u.session_id
    /\ u.state = ESTABLISHED

AppAfterRecv(a, u, u2, ev) ==
    [a EXCEPT !.submitted = IF u2 = u THEN @ ELSE 0,
              !.arrived = IF DataArrived(u, ev) THEN @ \cup {U32Nat(ev.pseq)} ELSE @]

\* One iteration of UcpClient::run in which recv_from returned a datagram.
ClientRecv ==
    /\ client_proc = "running"
    /\ Len(sent) < MaxSent
    /\ \E a \in ClientSources, checks \in BOOLEAN :
       \E d \in Arriving(ClientAddr, a) :
          With(UcpClient_process_packet(client_ucp, d, a, clock, checks),
               LAMBDA x :
                  /\ client_proc' = IF x.panic THEN "panicked" ELSE "running"
                  /\ client_ucp' = IF x.panic THEN x.u
                                    ELSE UcpClient_update(x.u, client_update_time,
                                                          clock)
                  /\ sent' = sent \o Sent(ClientAddr, x.out)
                  /\ client_update_time' =
                        IF x.panic THEN client_update_time
                        ELSE update_time_after(client_update_time, clock)
                  /\ last' = RecvEvent("client_recv", ClientAddr, a, d, x.panic)
                  /\ app' = AppAfterRecv(app, client_ucp, x.u,
                                         RecvEvent("client_recv", ClientAddr, a, d, x.panic)))
    /\ UNCHANGED <<clock, server_proc, ucp_map, server_update_time, on_new_ucp,
                   new_ucp_log, codec>>

\* One iteration of UcpClient::run in which recv_from timed out.
ClientIdle ==
    /\ client_proc = "running"
    /\ client_ucp' = UcpClient_update(client_ucp, client_update_time, clock)
    /\ client_update_time' = update_time_after(client_update_time, clock)
    /\ last' = [NoEvent EXCEPT !.op = "client_idle",
                               !.updated = update_due(client_update_time, clock)]
    /\ UNCHANGED <<clock, client_proc, server_proc, ucp_map, server_update_time,
                   on_new_ucp, new_ucp_log, sent, app, codec>>

AppBytes == {<<9>>}

\* UcpClient::send(buf).
ClientSend ==
    /\ client_proc = "running"
    /\ app.submitted < MaxAppCalls
    /\ \E buf \in AppBytes :
          With(send(Ctx(client_ucp), buf), LAMBDA x :
              /\ client_ucp' = x.u
              /\ sent' = sent \o Sent(ClientAddr, x.out))
    /\ app' = IF app.submitted = 0
              THEN [app EXCEPT !.submitted = 1,
                               !.from_empty = client_ucp.send_queue = <<>>
                                              /\ client_ucp.send_buffer = <<>>,
                               !.transmitted = Len(sent)]
              ELSE [app EXCEPT !.submitted = @ + 1]
    /\ last' = [NoEvent EXCEPT !.op = "send"]
    /\ UNCHANGED <<clock, client_proc, client_update_time, server_proc, ucp_map,
                   server_update_time, on_new_ucp, new_ucp_log, codec>>

RecvCapacity == BUF_LEN

\* UcpClient::recv(buf).
ClientRecvCall ==
    /\ client_proc = "running"
    /\ app.received < MaxAppCalls * RecvCapacity
    /\ With(recv(Ctx(client_ucp), RecvCapacity), LAMBDA r :
          /\ client_ucp' = r.x.u
          /\ app' = [app EXCEPT !.received = @ + r.ret])
    /\ last' = [NoEvent EXCEPT !.op = "recv"]
    /\ UNCHANGED <<clock, client_proc, client_update_time, server_proc, ucp_map,
                   server_update_time, on_new_ucp, new_ucp_log, sent, codec>>

\* The acknowledgments the harness applies: every seq in flight and some
\* that are not, echoing a timestamp of the past or of the future.
AckSeqs == {U32(q) : q \in 0..(MaxQueue + 1)}

AckTimestamps == {U32Zero, U32(ClockStep)}

\* A call of process_ack(seq, timestamp) on the client's connection.
CallProcessAck ==
    /\ client_proc = "running"
    /\ \E seq \in AckSeqs, ts \in AckTimestamps, checks \in BOOLEAN :
          With(process_ack(Ctx(client_ucp), seq, ts, clock, checks), LAMBDA r :
              /\ client_proc' = IF r.x.panic THEN "panicked" ELSE "running"
              /\ client_ucp' = r.x.u
              /\ app' = [app EXCEPT !.submitted = IF r.ret THEN 0 ELSE @]
              /\ last' = [NoEvent EXCEPT !.op = "process_ack", !.seq = seq,
                                         !.ts = ts, !.ret = r.ret,
                                         !.panic = r.x.panic])
    /\ UNCHANGED <<clock, client_update_time, server_proc, ucp_map,
                   server_update_time, on_new_ucp, new_ucp_log, sent, codec>>

\* The system, and next to it the client's event loop on a harness
\* connection.
UnitInit == Init \/ HarnessInit(RecvStates)

UnitNext ==
    \/ Next
    \/ ClientRecv
    \/ ClientIdle

UnitSpec == UnitInit /\ [][UnitNext]_vars

\* The calls of process_ack on a harness connection.
AckInit == HarnessInit(AckStates)

AckNext ==
    \/ Tick
    \/ ClientIdle
    \/ CallProcessAck

AckSpec == AckInit /\ [][AckNext]_vars

\* The calls through the application's handle, between the datagrams the
\* event loop receives.
AppInitial == HarnessInit(AppStates)

AppNext ==
    \/ Tick
    \/ ClientRecv
    \/ ClientSend
    \/ ClientRecvCall

AppSpec == AppInitial /\ [][AppNext]_vars

---------------------------------------------------------------------------
(* The codec harness: one UcpPacket, made by UcpPacket::new and filled in  *)
(* by its owner or received from the socket and parsed, then given payload *)
(* writes, pack, and a parse of the bytes pack produced.                   *)

MaxPayload == 5

FieldValues == {U32Zero, U32(1), AllOnes}

Commands == CMD_SYN..CMD_HEARTBEAT_ACK

SliceValues == {<<7>>, <<7, 9>>}

NonCodecVars ==
    <<clock, client_proc, client_ucp, client_update_time, server_proc, ucp_map,
      server_update_time, on_new_ucp, new_ucp_log, sent, app, last>>

\* UcpPacket::new() and the assignments of the header fields.
CodecNew ==
    /\ codec.phase = "idle"
    /\ \E cmd \in Commands, v \in FieldValues, w \in FieldValues :
          codec' = [codec EXCEPT
                       !.phase = "building",
                       !.pkt = [UcpPacket_new EXCEPT
                                   !.session_id = v, !.timestamp = w,
                                   !.window = v, !.xmit = w, !.una = v,
                                   !.seq = w, !.cmd = cmd]]
    /\ UNCHANGED NonCodecVars

\* A packet that recv_from filled and parse accepted.
CodecRecv ==
    /\ codec.phase = "idle"
    /\ \E d \in WellFormed :
          codec' = [codec EXCEPT
                       !.phase = "building", !.fresh = FALSE,
                       !.pkt = Decode(d).p,
                       !.written = SubSeq(d, UCP_PACKET_META_SIZE + 1, Len(d))]
    /\ UNCHANGED NonCodecVars

CodecWriteU32 ==
    /\ codec.phase = "building"
    /\ Len(codec.written) + 4 <= MaxPayload
    /\ \E u \in FieldValues :
          With(payload_write_u32(codec.pkt, u), LAMBDA r :
              codec' = [codec EXCEPT
                           !.pkt = r.p,
                           !.written = IF r.ok THEN @ \o BeBytes(u) ELSE @])
    /\ UNCHANGED NonCodecVars

CodecWriteSlice ==
    /\ codec.phase = "building"
    /\ \E bytes \in SliceValues :
          /\ Len(codec.written) + Len(bytes) <= MaxPayload
          /\ With(payload_write_slice(codec.pkt, bytes), LAMBDA r :
                codec' = [codec EXCEPT
                             !.pkt = r.p,
                             !.written = IF r.ok THEN @ \o bytes ELSE @])
    /\ UNCHANGED NonCodecVars

CodecPack ==
    /\ codec.phase = "building"
    /\ With(pack(codec.pkt), LAMBDA r :
          codec' = [codec EXCEPT
                       !.phase = IF r.panic THEN "panicked" ELSE "packed",
                       !.pkt = r.p])
    /\ UNCHANGED NonCodecVars

\* The receiver's recv_from and parse of the bytes packed_buffer returns.
CodecParse ==
    /\ codec.phase = "packed"
    /\ With(parse(recv_from(packed_buffer(codec.pkt))), LAMBDA r :
          codec' = [codec EXCEPT !.phase = "parsed", !.rx_ok = r.ok, !.rx = r.p])
    /\ UNCHANGED NonCodecVars

CodecNext ==
    \/ CodecNew
    \/ CodecRecv
    \/ CodecWriteU32
    \/ CodecWriteSlice
    \/ CodecPack
    \/ CodecParse

CodecSpec == Init /\ [][CodecNext]_vars

---------------------------------------------------------------------------
(* The claims.                                                             *)

\* Every datagram received so far is one the other party sent.
OnlyGenuine == last.op \in {"client_recv", "server_recv"} => last.genuine

BothEstablished ==
    /\ client_ucp.state = ESTABLISHED
    /\ \E a \in DOMAIN ucp_map : ucp_map[a].state = ESTABLISHED

\* C1 (handshake completion): with connect() called, the server's loop
\* running and a channel that delivers nothing but what the two parties sent,
\* the client's connection and a server-side connection are eventually both
\* ESTABLISHED.
C1_HandshakeCompletes == []OnlyGenuine => <>BothEstablished

SameHeader(p, q) ==
    /\ p.session_id = q.session_id
    /\ p.timestamp = q.timestamp
    /\ p.window = q.window
    /\ p.xmit = q.xmit
    /\ p.una = q.una
    /\ p.seq = q.seq
    /\ p.cmd = q.cmd

\* C2 (round-trip codec): pack of a packet with valid fields and the payload
\* its owner wrote completes, and parse of the bytes it produced succeeds and
\* yields the same header fields, payload length and payload bytes.
C2_RoundTrip ==
    /\ codec.phase # "panicked"
    /\ codec.phase = "parsed" =>
          /\ codec.rx_ok
          /\ SameHeader(codec.rx, codec.pkt)
          /\ codec.rx.payload = Len(codec.written)
          /\ BufSlice(codec.rx.buf, UCP_PACKET_META_SIZE,
                      UCP_PACKET_META_SIZE + Len(codec.written)) = codec.written

\* C3 (window enforcement): after N > W send() calls that started from an
\* empty send_queue and send_buffer with remote_window W and no
\* acknowledgment in between, send_queue holds W packets, send_buffer the
\* other N - W, and W datagrams were transmitted.
C3_WindowEnforcement ==
    (/\ app.submitted > 0
     /\ app.from_empty
     /\ client_ucp.remote_window[1] = 0
     /\ app.submitted > client_ucp.remote_window[2]) =>
        /\ Len(client_ucp.send_queue) = client_ucp.remote_window[2]
        /\ Len(client_ucp.send_buffer) = app.submitted - client_ucp.remote_window[2]
        /\ Len(sent) - app.transmitted = client_ucp.remote_window[2]

InQueue(q, seq) == \E j \in 1..Len(q) : q[j].seq = seq

\* C4 (duplicate/stale ACK idempotence): a process_ack whose seq is not in
\* send_queue returns false and changes nothing of the connection; one whose
\* seq is in send_queue returns true and removes one entry with that seq,
\* after which the seq is no longer in send_queue, so that the same
\* acknowledgment applied again is of the first kind.
C4_AckIdempotent ==
    [][(last'.op = "process_ack" /\ ~last'.panic) =>
          IF InQueue(client_ucp.send_queue, last'.seq)
          THEN /\ last'.ret
               /\ \E i \in 1..Len(client_ucp.send_queue) :
                     /\ client_ucp.send_queue[i].seq = last'.seq
                     /\ client_ucp'.send_queue =
                           SubSeq(client_ucp.send_queue, 1, i - 1)
                           \o SubSeq(client_ucp.send_queue, i + 1,
                                     Len(client_ucp.send_queue))
               /\ ~InQueue(client_ucp'.send_queue, last'.seq)
               /\ client_ucp'.state = client_ucp.state
          ELSE /\ ~last'.ret
               /\ client_ucp' = client_ucp]_vars

\* An acknowledgment was matched and others are still in flight.
C4_Witness ==
    /\ last.op = "process_ack"
    /\ last.ret
    /\ ~last.panic
    /\ client_ucp.send_queue # <<>>

InLog(log, addr) == \E i \in 1..Len(log) : log[i].addr = addr

ValidSynFrom(ev) == ev.op = "server_recv" /\ ev.ok /\ ev.cmd = CMD_SYN

\* C5 (optimistic accept): the callback is invoked only by the step that
\* processes a valid SYN from an address it was not invoked for before, once,
\* with a connection that is still NONE; and that step always invokes it.
C5_CallbackOnce ==
    [][/\ (new_ucp_log' # new_ucp_log) =>
              /\ ValidSynFrom(last')
              /\ ~InLog(new_ucp_log, last'.addr)
              /\ last'.addr \notin DOMAIN ucp_map
              /\ new_ucp_log' = Append(new_ucp_log,
                                       [addr |-> last'.addr, state |-> NONE])
       /\ (ValidSynFrom(last') /\ ~InLog(new_ucp_log, last'.addr)) =>
              new_ucp_log' # new_ucp_log]_vars

\* A valid SYN of another session arrived from an address whose callback had
\* been invoked.
C5_Witness ==
    /\ Len(new_ucp_log) = 1
    /\ ValidSynFrom(last)
    /\ last.addr = new_ucp_log[1].addr
    /\ last.addr \in DOMAIN ucp_map
    /\ ucp_map[last.addr].session_id # last.session_id

\* C6 (packet filter): a decoded packet from an address other than the
\* connection's remote address, or with another session_id than that of a
\* connection that has left NONE, changes nothing of the connection and
\* transmits nothing.
C6_PacketFilter ==
    [][/\ (/\ last'.op = "client_recv"
           /\ last'.ok
           /\ \/ last'.addr # client_ucp.remote_addr
              \/ /\ client_ucp.state # NONE
                 /\ last'.session_id # client_ucp.session_id) =>
              /\ client_ucp' = client_ucp
              /\ client_proc' = client_proc
              /\ sent' = sent
       /\ (/\ last'.op = "server_recv"
           /\ last'.ok
           /\ last'.addr \in DOMAIN ucp_map
           /\ ucp_map[last'.addr].state # NONE
           /\ last'.session_id # ucp_map[last'.addr].session_id) =>
              /\ ucp_map' = ucp_map
              /\ server_proc' = server_proc
              /\ sent' = sent]_vars

\* A SYN_ACK of the connection's session arrived from another address while
\* the SYN was in flight.
C6_Witness ==
    /\ last.op = "client_recv"
    /\ last.ok
    /\ last.cmd = CMD_SYN_ACK
    /\ last.addr # client_ucp.remote_addr
    /\ last.session_id = client_ucp.session_id
    /\ client_ucp.state = CONNECTING
    /\ InQueue(client_ucp.send_queue, U32(1))

\* C7 (malformed datagrams are dropped): a received datagram that is too
\* short, has a wrong checksum or a command outside 128..133 is rejected and
\* changes no connection, adds no registry entry, invokes no callback and
\* transmits nothing, in the client's loop and in the server's.
C7_MalformedDropped ==
    [][(last'.op \in {"client_recv", "server_recv"} /\ last'.malformed) =>
          /\ ~last'.ok
          /\ ~last'.panic
          /\ client_ucp' = client_ucp
          /\ ucp_map' = ucp_map
          /\ new_ucp_log' = new_ucp_log
          /\ sent' = sent]_vars

\* The server received a malformed datagram from an address it has a
\* connection for.
C7_Witness ==
    /\ last.op = "server_recv"
    /\ last.malformed
    /\ last.addr \in DOMAIN ucp_map

\* C8 (no panic): no step of the client or of the server panics.
C8_NoPanic == client_proc # "panicked" /\ server_proc # "panicked"

\* C9 (ordering): once the peer's first DATA packets have all arrived at an
\* ESTABLISHED connection, in whatever order, a recv() call returns their
\* bytes.
C9_Ordering ==
    (/\ last.op = "recv"
     /\ client_ucp.state = ESTABLISHED
     /\ DataSeqs \subseteq app.arrived) => app.received > 0

\* The rto values the claim is checked for.
RtoLimit == 16384

Between(a, x, b) == a <= x /\ x <= b

SynAckSent(q, ev) ==
    /\ q # <<>>
    /\ q[Len(q)].to = ev.addr
    /\ Decode(q[Len(q)].bytes).ok
    /\ Decode(q[Len(q)].bytes).p.cmd = CMD_SYN_ACK
    /\ Decode(q[Len(q)].bytes).p.payload = 8
    /\ BufSlice(Decode(q[Len(q)].bytes).p.buf, UCP_PACKET_META_SIZE,
                UCP_PACKET_META_SIZE + 8) = Echo(ev.pseq, ev.ptimestamp)

\* C11 (SYN acceptance): a server step that parses a SYN from an address
\* without a connection gives the new connection, which is in state NONE, the
\* SYN: the connection ends in ACCEPTING with the SYN's session_id as its
\* session_id and the SYN's window as its remote_window, and the step
\* transmits one datagram, the SYN_ACK that echoes the SYN's seq and
\* timestamp.
C11_SynAcceptance ==
    [][(ValidSynFrom(last') /\ last'.addr \notin DOMAIN ucp_map)
       => /\ last'.addr \in DOMAIN ucp_map'
          /\ ucp_map'[last'.addr].state = ACCEPTING
          /\ ucp_map'[last'.addr].session_id = last'.session_id
          /\ ucp_map'[last'.addr].remote_window = last'.window
          /\ ~last'.panic
          /\ Len(sent') = Len(sent) + 1
          /\ SynAckSent(sent', last')]_vars

\* The client's loop was given, by the datagram of event ev, a SYN_ACK from
\* the remote address of connection u, with u's session_id and an 8-byte
\* payload whose first word is the seq of a packet in u's send_queue.
MatchedSynAck(u, ev) ==
    /\ ev.op = "client_recv"
    /\ ev.ok
    /\ ev.cmd = CMD_SYN_ACK
    /\ ev.addr = u.remote_addr
    /\ ev.session_id = u.session_id
    /\ ev.payload = 8
    /\ InQueue(u.send_queue, ev.echo_seq)

\* The last datagram of q is an ACK with seq 0 whose payload is the seq and
\* timestamp of the packet of event ev.
AckSent(q, ev) ==
    /\ q # <<>>
    /\ q[Len(q)].to = ev.addr
    /\ Decode(q[Len(q)].bytes).ok
    /\ Decode(q[Len(q)].bytes).p.cmd = CMD_ACK
    /\ Decode(q[Len(q)].bytes).p.seq = U32Zero
    /\ Decode(q[Len(q)].bytes).p.payload = 8
    /\ BufSlice(Decode(q[Len(q)].bytes).p.buf, UCP_PACKET_META_SIZE,
                UCP_PACKET_META_SIZE + 8) = Echo(ev.pseq, ev.ptimestamp)

OtherInConnecting(u, ev) ==
    /\ u.state = CONNECTING
    /\ ev.op = "client_recv"
    /\ ~MatchedSynAck(u, ev)

\* The packet of event ev passes the filters of connection u: parse accepted
\* it, it comes from u's remote address and carries u's session_id.
InSession(u, ev) ==
    /\ ev.ok
    /\ ev.addr = u.remote_addr
    /\ ev.session_id = u.session_id

\* What C13 says of every field but remote_window: the step leaves the
\* connection CONNECTING with the same send_queue, send_buffer, rto, seq and
\* session_id, does not panic and transmits nothing.
IgnoredButWindow ==
    /\ client_ucp'.state = CONNECTING
    /\ client_ucp'.send_queue = client_ucp.send_queue
    /\ client_ucp'.send_buffer = client_ucp.send_buffer
    /\ client_ucp'.rto = client_ucp.rto
    /\ client_ucp'.seq = client_ucp.seq
    /\ client_ucp'.session_id = client_ucp.session_id
    /\ client_proc' = client_proc
    /\ sent' = sent

MatchedAck(u, ev) ==
    /\ ev.op = "client_recv"
    /\ InSession(u, ev)
    /\ ev.cmd = CMD_ACK
    /\ ev.payload = 8
    /\ \E i \in 1..Len(u.send_queue) :
          /\ u.send_queue[i].cmd = CMD_SYN_ACK
          /\ u.send_queue[i].seq = ev.echo_seq
          /\ u.send_queue[i].timestamp = ev.echo_ts

\* C14 (server handshake step): a step in which an ACCEPTING connection is
\* given, from its remote address and with its session_id, an ACK that echoes
\* the seq and timestamp of the SYN_ACK it sent leaves the connection
\* ESTABLISHED, with that SYN_ACK no longer in send_queue.
C14_ServerHandshake ==
    [][(client_ucp.state = ACCEPTING /\ MatchedAck(client_ucp, last'))
       => /\ client_ucp'.state = ESTABLISHED
          /\ ~InQueue(client_ucp'.send_queue, last'.echo_seq)]_vars

\* send_queue of connection u holds at most remote_window packets.
WithinWindow(u) ==
    u.send_queue = <<>> \/ LenLess(Len(u.send_queue) - 1, u.remote_window)

Overdue(u, now) ==
    {i \in 1..Len(u.send_queue) :
        U32Less(u.rto, U32Sub(timestamp(u, now), u.send_queue[i].timestamp).v)}

\* C16 (timeout retransmission): an iteration of the client's loop that runs
\* update() transmits every packet of send_queue that has been
\* unacknowledged for longer than rto once more, with xmit one higher, the
\* timestamp of now and the same seq, and leaves it in its place in
\* send_queue.
C16_TimeoutRetransmission ==
    [][(last'.op = "client_idle" /\ last'.updated)
       => /\ Len(client_ucp'.send_queue) = Len(client_ucp.send_queue)
          /\ Len(sent') = Len(sent) + Cardinality(Overdue(client_ucp, clock))
          /\ \A i \in Overdue(client_ucp, clock) :
                /\ client_ucp'.send_queue[i].seq = client_ucp.send_queue[i].seq
                /\ client_ucp'.send_queue[i].xmit =
                      U32Add(client_ucp.send_queue[i].xmit, U32(1)).v
                /\ client_ucp'.send_queue[i].timestamp =
                      timestamp(client_ucp, clock)]_vars

\* Connection u has a packet waiting in send_buffer and room for it in
\* send_queue.
Room(u) ==
    u.send_buffer # <<>> /\ LenLess(Len(u.send_queue), u.remote_window)

\* C17 (window replenishment): an iteration of the server's loop that runs
\* update() moves packets from the head of each connection's send_buffer to
\* the tail of its send_queue, in order, until send_queue is full or
\* send_buffer empty, and transmits each packet it moves.
C17_WindowReplenishment ==
    [][(last'.op = "server_idle" /\ last'.updated)
       => /\ DOMAIN ucp_map' = DOMAIN ucp_map
          /\ \A a \in DOMAIN ucp_map :
                /\ ~Room(ucp_map'[a])
                /\ ucp_map'[a].send_queue \o ucp_map'[a].send_buffer =
                      ucp_map[a].send_queue \o ucp_map[a].send_buffer
                /\ Len(ucp_map'[a].send_queue) >= Len(ucp_map[a].send_queue)
                /\ Room(ucp_map[a]) => Len(sent') > Len(sent)]_vars

\* C18 (connection registry): the registry is keyed by remote address and
\* each entry is the connection of its key; an entry is added only by a
\* server step that parsed a SYN from an address without an entry, and that
\* step adds that address alone; no entry is removed, and the connection of
\* an entry is never replaced by a new one (it keeps the time it was created
\* at); a step that received a packet from an address with an entry adds no
\* entry and invokes no callback, and no step changes the connection of any
\* address but the one it received a packet from.
C18_Registry ==
    [][/\ DOMAIN ucp_map \subseteq DOMAIN ucp_map'
       /\ \A a \in DOMAIN ucp_map' : ucp_map'[a].remote_addr = a
       /\ \A a \in DOMAIN ucp_map :
             /\ ucp_map'[a].initial_time = ucp_map[a].initial_time
             /\ (last'.op # "server_recv" \/ last'.addr # a)
                   => ucp_map'[a] = ucp_map[a]
       /\ (DOMAIN ucp_map' # DOMAIN ucp_map)
             => /\ ValidSynFrom(last')
                /\ last'.addr \notin DOMAIN ucp_map
                /\ DOMAIN ucp_map' = DOMAIN ucp_map \cup {last'.addr}
       /\ (last'.op = "server_recv" /\ last'.addr \in DOMAIN ucp_map)
             => /\ DOMAIN ucp_map' = DOMAIN ucp_map
                /\ new_ucp_log' = new_ucp_log]_vars

\* With a connection for each of two addresses, one of them made at time 0,
\* the server was given at a later time a DATA packet and routed it to that
\* connection.
C18_Witness ==
    /\ Cardinality(DOMAIN ucp_map) = 2
    /\ last.op = "server_recv"
    /\ last.ok
    /\ last.cmd = CMD_DATA
    /\ last.addr \in DOMAIN ucp_map
    /\ clock > 0
    /\ ucp_map[last.addr].initial_time = 0

\* session_id of connection u is 0 exactly while u is in state NONE.
ZeroOnlyInNone(u) == (u.state = NONE) <=> (u.session_id = U32Zero)

\* C19 (session_id assigned once, 0 only before assignment): every step
\* leaves every connection, the client's and each of the registry, with
\* session_id 0 if it is in state NONE and a session_id other than 0 if it is
\* not, and leaves the session_id of a connection that had left NONE as it
\* was.
C19_SessionIdOnce ==
    [][/\ ZeroOnlyInNone(client_ucp')
       /\ \A a \in DOMAIN ucp_map' : ZeroOnlyInNone(ucp_map'[a])
       /\ client_ucp.state # NONE
             => client_ucp'.session_id = client_ucp.session_id
       /\ \A a \in DOMAIN ucp_map :
             ucp_map[a].state # NONE
                => ucp_map'[a].session_id = ucp_map[a].session_id]_vars

\* The moves of UcpState the handshake has, and no move at all.
Forward(s, t) ==
    \/ s = t
    \/ s = NONE /\ t \in {CONNECTING, ACCEPTING}
    \/ s \in {CONNECTING, ACCEPTING} /\ t = ESTABLISHED

\* Connection u2 is u without a second acceptance: same state and
\* session_id, no SYN_ACK built (seq, send_queue and send_buffer as before).
NotReaccepted(u, u2) ==
    /\ u2.state = u.state
    /\ u2.session_id = u.session_id
    /\ u2.seq = u.seq
    /\ u2.send_queue = u.send_queue
    /\ u2.send_buffer = u.send_buffer

\* C20 (state only moves forward): in every step each connection keeps its
\* state or makes one of the moves NONE -> CONNECTING, NONE -> ACCEPTING,
\* CONNECTING -> ESTABLISHED, ACCEPTING -> ESTABLISHED (a connection new in
\* the registry started in NONE); and a step that gives a SYN to a connection
\* that is not in NONE does not accept again: the connection keeps its state
\* and session_id, builds no SYN_ACK and transmits nothing.
C20_ForwardOnly ==
    [][/\ Forward(client_ucp.state, client_ucp'.state)
       /\ \A a \in DOMAIN ucp_map' :
             Forward(IF a \in DOMAIN ucp_map THEN ucp_map[a].state ELSE NONE,
                     ucp_map'[a].state)
       /\ (/\ last'.op = "client_recv" /\ last'.ok /\ last'.cmd = CMD_SYN
           /\ client_ucp.state # NONE)
             => NotReaccepted(client_ucp, client_ucp') /\ sent' = sent
       /\ (/\ ValidSynFrom(last') /\ last'.addr \in DOMAIN ucp_map
           /\ ucp_map[last'.addr].state # NONE)
             => /\ NotReaccepted(ucp_map[last'.addr], ucp_map'[last'.addr])
                /\ sent' = sent]_vars

\* A connection the server made for a SYN with window 0 was given a second
\* SYN of its session, with window 1: it is still ACCEPTING, with the one
\* SYN_ACK it built in send_buffer.
C20_Witness ==
    /\ ValidSynFrom(last)
    /\ last.addr \in DOMAIN ucp_map
    /\ last.window = U32(1)
    /\ ~last.panic
    /\ ucp_map[last.addr].session_id = last.session_id
    /\ ucp_map[last.addr].remote_window = U32(1)
    /\ ucp_map[last.addr].state = ACCEPTING
    /\ Len(ucp_map[last.addr].send_buffer) = 1
    /\ ucp_map[last.addr].seq = U32(1)

=============================================================================
